---- MODULE Spec2Model ----
(***************************************************************************)
(* raiseorlaunch: a run-or-raise launcher for the i3 window manager.       *)
(* Model of src/raiseorlaunch/raiseorlaunch.py (class Raiseorlaunch).      *)
(*                                                                         *)
(* Strings are sequences of one-character strings; Python's None is the    *)
(* value None below.  A window is a record holding the attributes of an    *)
(* i3ipc Con that the program reads; the window tree is the sequence of    *)
(* leaf windows in traversal order together with the focused workspace.    *)
(***************************************************************************)
EXTENDS Integers, Sequences, FiniteSets, TLC

VARIABLES
    rol,        \* the Raiseorlaunch object: its configuration, tree snapshot, current_ws
    pc,         \* position of the invocation: start, ready, listening, done, error
    i3,         \* the live state of the window manager: [wins, focusWs]
    log,        \* IPC requests issued by the current invocation, in order
    handler,    \* which handlers ran in the current invocation
    queue,      \* window::new events waiting for the event loop
    delivered,  \* events the event loop has handed to the callback
    timer,      \* timeout argument of Connection.main, 0 when no timer runs
    clock,      \* time spent in Connection.main
    launched,   \* some invocation has issued an exec command
    runs,       \* invocations started so far
    hist        \* the latest raising invocations that followed one another with
                \* nothing else changing the desktop in between, one entry each

vars == <<rol, pc, i3, log, handler, queue, delivered, timer, clock, launched, runs, hist>>

----------------------------------------------------------------------------
(* Bounds of the model *)

MaxWins == 2
MaxRuns == 3
MaxTimeLimit == 1
MaxClock == 2
FindMaxWins == 2
MaxText == 3

----------------------------------------------------------------------------
(* Values *)

None == <<"None">>
App == <<"a">>
Other == <<"b">>
Mark == <<"m">>
W1 == <<"1">>
W2 == <<"2">>
W3 == <<"3">>
Scratch == <<"_", "s">>
Command == <<"c">>

\* Python truthiness of an optional string: None and "" are false
Truthy(v) == v # None /\ v # <<>>

Range(s) == {s[i] : i \in 1..Len(s)}

RECURSIVE SelectSeq2(_, _)
SelectSeq2(s, keep) ==
    IF s = <<>> THEN <<>>
    ELSE IF Head(s).id \in keep THEN <<Head(s)>> \o SelectSeq2(Tail(s), keep)
    ELSE SelectSeq2(Tail(s), keep)

Ids(s) == {s[i].id : i \in 1..Len(s)}

----------------------------------------------------------------------------
(* The matcher *)

Lower(c) == IF c = "A" THEN "a" ELSE IF c = "B" THEN "b" ELSE c

\* the regex ".*", which matches every string, the empty one included
AnyString == <<".", "*">>

\* _match_regex with re.search in place of re.match: a match at any position
_match_regex_search(self, regex, string_to_match) ==
    \/ regex = AnyString
    \/ \E k \in 0..(Len(string_to_match) - Len(regex)) :
          \A i \in 1..Len(regex) :
             IF self.ignore_case
             THEN Lower(regex[i]) = Lower(string_to_match[k + i])
             ELSE regex[i] = string_to_match[k + i]

\* re.match(regex, string, *flags) for ".*" and for a literal regex: a match at
\* position 0 that need not reach the end of the string
_match_regex(self, regex, string_to_match) ==
    \/ regex = AnyString
    \/ /\ Len(regex) <= Len(string_to_match)
       /\ \A i \in 1..Len(regex) :
             IF self.ignore_case
             THEN Lower(regex[i]) = Lower(string_to_match[i])
             ELSE regex[i] = string_to_match[i]

\* the test of _compare_running with a missing value let through
PatternFails_missing_ok(self, pattern, value) ==
    Truthy(pattern) /\ Truthy(value) /\ ~_match_regex(self, pattern, value)

PatternFails(self, pattern, value) ==
    Truthy(pattern) /\ (~Truthy(value) \/ ~_match_regex(self, pattern, value))

\* _compare_running that returns True at the first pattern that does not fail
_compare_running_first_pass(self, window) ==
    \/ ~PatternFails(self, self.wm_class, window.window_class)
    \/ ~PatternFails(self, self.wm_instance, window.window_instance)
    \/ ~PatternFails(self, self.wm_title, window.name)

_compare_running(self, window) ==
    /\ ~PatternFails(self, self.wm_class, window.window_class)
    /\ ~PatternFails(self, self.wm_instance, window.window_instance)
    /\ ~PatternFails(self, self.wm_title, window.name)

----------------------------------------------------------------------------
(* The finder *)

\* tree.leaves(): every leaf window in traversal order
Leaves(tree) == tree.wins

\* workspace.leaves() of the workspace of that name; workspaces() leaves out
\* the internal workspace that holds the hidden scratchpad windows
WorkspaceExists(tree, name) ==
    /\ name # Scratch
    /\ (tree.focusWs = name \/ \E i \in 1..Len(tree.wins) : tree.wins[i].ws = name)

WorkspaceLeaves(tree, name) ==
    SelectSeq2(tree.wins, {tree.wins[i].id : i \in {j \in 1..Len(tree.wins) : tree.wins[j].ws = name}})

\* _get_window_list that takes no notice of the workspace
_get_window_list_unscoped(self) ==
    IF self.scratch
    THEN SelectSeq2(Leaves(self.tree),
             {w.id : w \in {x \in Range(Leaves(self.tree)) :
                               x.scratchpad_state \in {"changed", "fresh"}}})
    ELSE Leaves(self.tree)

\* _get_window_list that takes no notice of the scratch option
_get_window_list_all_leaves(self) ==
    IF ~Truthy(self.workspace)
    THEN Leaves(self.tree)
    ELSE IF WorkspaceExists(self.tree, self.workspace)
         THEN WorkspaceLeaves(self.tree, self.workspace)
         ELSE <<>>

_get_window_list(self) ==
    IF ~Truthy(self.workspace)
    THEN IF self.scratch
         THEN SelectSeq2(Leaves(self.tree),
                  {w.id : w \in {x \in Range(Leaves(self.tree)) :
                                    x.scratchpad_state \in {"changed", "fresh"}}})
         ELSE Leaves(self.tree)
    ELSE IF WorkspaceExists(self.tree, self.workspace)
         THEN WorkspaceLeaves(self.tree, self.workspace)
         ELSE <<>>

\* tree.find_marked(pattern): the containers one of whose marks the pattern
\* is found in (re.search), for a literal pattern
Search(pattern, s) ==
    \E k \in 0..(Len(s) - Len(pattern)) :
        \A i \in 1..Len(pattern) : pattern[i] = s[k + i]

find_marked(tree, pattern) ==
    SelectSeq2(tree.wins,
        {w.id : w \in {x \in Range(tree.wins) : \E m \in x.marks : Search(pattern, m)}})

\* the list found, <<>> standing for None as well (both are false in run())
_find_marked_window(self) ==
    LET found == find_marked(self.tree, self.con_mark) IN
    IF found # <<>> /\ Truthy(self.workspace) /\ found[1].ws # self.workspace
    THEN <<>>
    ELSE found

\* _is_running without its test for a window without any properties
NoProperties_never(leave) == FALSE

NoProperties(leave) ==
    leave.window_class = None /\ leave.window_instance = None /\ leave.window_title = None

Reverse(s) == [i \in 1..Len(s) |-> s[Len(s) + 1 - i]]

\* _is_running that puts each window found at the head of the list
_is_running_prepend(self) ==
    IF Truthy(self.con_mark)
    THEN _find_marked_window(self)
    ELSE LET window_list == _get_window_list(self) IN
         Reverse(SelectSeq2(window_list,
            {w.id : w \in {x \in Range(window_list) :
                              ~NoProperties(x) /\ _compare_running(self, x)}}))

_is_running(self) ==
    IF Truthy(self.con_mark)
    THEN _find_marked_window(self)
    ELSE LET window_list == _get_window_list(self) IN
         SelectSeq2(window_list,
            {w.id : w \in {x \in Range(window_list) :
                              ~NoProperties(x) /\ _compare_running(self, x)}})

----------------------------------------------------------------------------
(* Requests sent to the window manager, and what the window manager does   *)
(* with them.  A request on a window (Con.command) carries the window id;  *)
(* a request on the connection carries id 0.                               *)

Req(op, win, arg) == [op |-> op, win |-> win, arg |-> arg]

Ops(s) == [i \in 1..Len(s) |-> s[i].op]

HasWin(wins, id) == \E i \in 1..Len(wins) : wins[i].id = id
Win(wins, id) == wins[CHOOSE i \in 1..Len(wins) : wins[i].id = id]

Unfocus(wins) == [i \in 1..Len(wins) |-> [wins[i] EXCEPT !.focused = FALSE]]
FocusOn(wins, id) == [i \in 1..Len(wins) |-> [wins[i] EXCEPT !.focused = (wins[i].id = id)]]
OnWs(wins, ws) == {wins[i].id : i \in {j \in 1..Len(wins) : wins[j].ws = ws}}

\* focus falls on one of the windows of the workspace, on the workspace itself
\* when it is empty
FocusSomeOn(wins, ws) ==
    IF OnWs(wins, ws) = {} THEN {Unfocus(wins)}
    ELSE {FocusOn(wins, id) : id \in OnWs(wins, ws)}

\* the window leaves for the scratchpad; if it held the focus, the focus moves on
HideScratch(w, id) ==
    LET moved == [i \in 1..Len(w.wins) |->
                    IF w.wins[i].id = id
                    THEN [w.wins[i] EXCEPT !.ws = Scratch, !.focused = FALSE,
                              !.scratchpad_state =
                                  IF @ = "none" THEN "fresh" ELSE @]
                    ELSE w.wins[i]]
    IN  IF Win(w.wins, id).focused
        THEN {[w EXCEPT !.wins = x] : x \in FocusSomeOn(moved, w.focusWs)}
        ELSE {[w EXCEPT !.wins = moved]}

\* "scratchpad show" with a criterion toggles: a scratchpad window shown on the
\* focused workspace is hidden, any other scratchpad window is brought to the
\* focused workspace and focused; a window outside the scratchpad is left alone
ShowScratch(w, id) ==
    LET win == Win(w.wins, id) IN
    IF win.scratchpad_state = "none" THEN {w}
    ELSE IF win.ws # Scratch /\ win.ws = w.focusWs THEN HideScratch(w, id)
    ELSE {[w EXCEPT !.wins = [i \in 1..Len(w.wins) |->
                IF w.wins[i].id = id
                THEN [w.wins[i] EXCEPT !.ws = w.focusWs, !.focused = TRUE,
                                       !.scratchpad_state = "changed"]
                ELSE [w.wins[i] EXCEPT !.focused = FALSE]]]}

MoveToWorkspace(w, id, name) ==
    LET win == Win(w.wins, id)
        moved == [i \in 1..Len(w.wins) |->
                    IF w.wins[i].id = id
                    THEN [w.wins[i] EXCEPT !.ws = name, !.focused = FALSE]
                    ELSE w.wins[i]]
    IN  IF win.ws = name THEN {w}
        ELSE IF win.focused
        THEN {[w EXCEPT !.wins = x] : x \in FocusSomeOn(moved, w.focusWs)}
        ELSE {[w EXCEPT !.wins = moved]}

I3Apply(w, r) ==
    IF r.win # 0 /\ ~HasWin(w.wins, r.win) THEN {w}
    ELSE CASE r.op = "workspace" ->
                IF r.arg = w.focusWs THEN {w}
                ELSE {[wins |-> x, focusWs |-> r.arg] : x \in FocusSomeOn(w.wins, r.arg)}
           [] r.op = "focus" ->
                IF Win(w.wins, r.win).ws = Scratch THEN ShowScratch(w, r.win)
                ELSE {[wins |-> FocusOn(w.wins, r.win), focusWs |-> Win(w.wins, r.win).ws]}
           [] r.op = "scratchpad show" -> ShowScratch(w, r.win)
           [] r.op = "move scratchpad" -> HideScratch(w, r.win)
           [] r.op = "mark" ->
                {[w EXCEPT !.wins = [i \in 1..Len(w.wins) |->
                    IF w.wins[i].id = r.win
                    THEN [w.wins[i] EXCEPT !.marks = {r.arg}]
                    ELSE [w.wins[i] EXCEPT !.marks = @ \ {r.arg}]]]}
           [] r.op = "move container to workspace" -> MoveToWorkspace(w, r.win, r.arg)
           [] r.op = "fullscreen" ->
                {[w EXCEPT !.wins = [i \in 1..Len(w.wins) |->
                    IF w.wins[i].id = r.win
                    THEN [w.wins[i] EXCEPT !.fullscreen = ~@]
                    ELSE w.wins[i]]]}
           [] OTHER -> {w}

RECURSIVE I3ApplySeq(_, _)
I3ApplySeq(W, reqs) ==
    IF reqs = <<>> THEN W
    ELSE I3ApplySeq(UNION {I3Apply(w, Head(reqs)) : w \in W}, Tail(reqs))

----------------------------------------------------------------------------
(* Construction *)

\* an event time limit is a number or a text
Num(n) == [num |-> n]
Str(s) == [str |-> s]
IsNum(v) == "num" \in DOMAIN v

\* a float: n / 10^e, without trailing zeros in the decimals
Decimal(n, e) == [n |-> n, e |-> e]

\* False, which equals 0 and 0.0
False == Decimal(0, 0)

Digits == {"0", "1", "2", "3", "4", "5", "6", "7", "8", "9"}

DigitValue(c) ==
    CASE c = "0" -> 0 [] c = "1" -> 1 [] c = "2" -> 2 [] c = "3" -> 3
      [] c = "4" -> 4 [] c = "5" -> 5 [] c = "6" -> 6 [] c = "7" -> 7
      [] c = "8" -> 8 [] c = "9" -> 9

\* the text after an optional sign
Unsigned(s) == IF s # <<>> /\ s[1] \in {"-", "+"} THEN Tail(s) ELSE s

\* the texts float() converts: an optional sign, then digits with at most one
\* decimal point and at least one digit; any other text raises ValueError
IsFloatLiteral(s) ==
    LET u == Unsigned(s)
        points == {i \in 1..Len(u) : u[i] = "."}
    IN  /\ Cardinality(points) <= 1
        /\ \A i \in (1..Len(u)) \ points : u[i] \in Digits
        /\ Len(u) > Cardinality(points)

RECURSIVE DecimalValue(_)
DecimalValue(d) ==
    IF d = <<>> THEN 0
    ELSE 10 * DecimalValue(SubSeq(d, 1, Len(d) - 1)) + DigitValue(d[Len(d)])

RECURSIVE StripZeros(_)
StripZeros(d) ==
    IF d # <<>> /\ d[Len(d)] = "0" THEN StripZeros(SubSeq(d, 1, Len(d) - 1)) ELSE d

\* float(value) of a number or of a text float() converts
float(value) ==
    IF IsNum(value) THEN Decimal(value.num, 0)
    ELSE LET s == value.str
             u == Unsigned(s)
             points == {i \in 1..Len(u) : u[i] = "."}
             point == IF points = {} THEN Len(u) + 1 ELSE CHOOSE i \in points : TRUE
             whole == SubSeq(u, 1, point - 1)
             decimals == StripZeros(SubSeq(u, point + 1, Len(u)))
             magnitude == DecimalValue(whole \o decimals)
         IN  Decimal(IF s # <<>> /\ s[1] = "-" THEN 0 - magnitude ELSE magnitude,
                     Len(decimals))

\* check_positive without the test fvalue <= 0
check_positive_any_number(value) ==
    IF ~IsNum(value) /\ ~IsFloatLiteral(value.str) THEN False
    ELSE float(value)

\* False on ValueError and for fvalue <= 0, fvalue otherwise
check_positive(value) ==
    IF ~IsNum(value) /\ ~IsFloatLiteral(value.str) THEN False
    ELSE IF float(value).n <= 0 THEN False
    ELSE float(value)

\* _check_args with a con_mark counting as a criterion
_check_args_marker_counts(self) ==
    IF ~Truthy(self.wm_class) /\ ~Truthy(self.wm_instance) /\ ~Truthy(self.wm_title)
       /\ ~Truthy(self.con_mark)
    THEN "You need to specify \"wm_class\", \"wm_instance\" or \"wm_title."
    ELSE IF (Truthy(self.workspace) \/ Truthy(self.target_workspace)) /\ self.scratch
    THEN "You cannot use the scratchpad on a specific workspace."
    ELSE IF check_positive(self.event_time_limit) = False
    THEN "The event time limit must be a positive integer or float!"
    ELSE IF Truthy(self.workspace) /\ Truthy(self.target_workspace)
            /\ self.workspace # self.target_workspace
    THEN "Setting workspace and initial workspace is ambiguous!"
    ELSE ""

\* _check_args with the scratchpad tested against the workspace only
_check_args_scratch_workspace_only(self) ==
    IF ~Truthy(self.wm_class) /\ ~Truthy(self.wm_instance) /\ ~Truthy(self.wm_title)
    THEN "You need to specify \"wm_class\", \"wm_instance\" or \"wm_title."
    ELSE IF Truthy(self.workspace) /\ self.scratch
    THEN "You cannot use the scratchpad on a specific workspace."
    ELSE IF check_positive(self.event_time_limit) = False
    THEN "The event time limit must be a positive integer or float!"
    ELSE IF Truthy(self.workspace) /\ Truthy(self.target_workspace)
            /\ self.workspace # self.target_workspace
    THEN "Setting workspace and initial workspace is ambiguous!"
    ELSE ""

\* _check_args without the test of the scratchpad against the workspaces
_check_args_no_scratch_check(self) ==
    IF ~Truthy(self.wm_class) /\ ~Truthy(self.wm_instance) /\ ~Truthy(self.wm_title)
    THEN "You need to specify \"wm_class\", \"wm_instance\" or \"wm_title."
    ELSE IF check_positive(self.event_time_limit) = False
    THEN "The event time limit must be a positive integer or float!"
    ELSE IF Truthy(self.workspace) /\ Truthy(self.target_workspace)
            /\ self.workspace # self.target_workspace
    THEN "Setting workspace and initial workspace is ambiguous!"
    ELSE ""

\* _check_args without the comparison of workspace and target_workspace
_check_args_no_ambiguity(self) ==
    IF ~Truthy(self.wm_class) /\ ~Truthy(self.wm_instance) /\ ~Truthy(self.wm_title)
    THEN "You need to specify \"wm_class\", \"wm_instance\" or \"wm_title."
    ELSE IF (Truthy(self.workspace) \/ Truthy(self.target_workspace)) /\ self.scratch
    THEN "You cannot use the scratchpad on a specific workspace."
    ELSE IF check_positive(self.event_time_limit) = False
    THEN "The event time limit must be a positive integer or float!"
    ELSE ""

\* the error _check_args raises, "" when it raises none
_check_args(self) ==
    IF ~Truthy(self.wm_class) /\ ~Truthy(self.wm_instance) /\ ~Truthy(self.wm_title)
    THEN "You need to specify \"wm_class\", \"wm_instance\" or \"wm_title."
    ELSE IF (Truthy(self.workspace) \/ Truthy(self.target_workspace)) /\ self.scratch
    THEN "You cannot use the scratchpad on a specific workspace."
    ELSE IF check_positive(self.event_time_limit) = False
    THEN "The event time limit must be a positive integer or float!"
    ELSE IF Truthy(self.workspace) /\ Truthy(self.target_workspace)
            /\ self.workspace # self.target_workspace
    THEN "Setting workspace and initial workspace is ambiguous!"
    ELSE ""

\* _need_to_listen_to_events without the target workspace
_need_to_listen_no_target(self) ==
    self.scratch \/ Truthy(self.con_mark)

_need_to_listen_to_events(self) ==
    self.scratch \/ Truthy(self.con_mark) \/ Truthy(self.target_workspace)

\* tree.find_focused().workspace().name
get_current_workspace(self) == self.tree.focusWs

NoTree == [wins |-> <<>>, focusWs |-> None]

\* __init__ that leaves target_workspace as given
NewRol_no_default(a) ==
    [command |-> a.command,
     wm_class |-> a.wm_class,
     wm_instance |-> a.wm_instance,
     wm_title |-> a.wm_title,
     workspace |-> a.workspace,
     target_workspace |-> a.target_workspace,
     scratch |-> a.scratch,
     con_mark |-> a.con_mark,
     ignore_case |-> a.ignore_case,
     event_time_limit |-> a.event_time_limit,
     cycle |-> a.cycle,
     leave_fullscreen |-> a.leave_fullscreen,
     tree |-> NoTree,
     current_ws |-> None]

\* the assignments of __init__ that come before _check_args
NewRol(a) ==
    [command |-> a.command,
     wm_class |-> a.wm_class,
     wm_instance |-> a.wm_instance,
     wm_title |-> a.wm_title,
     workspace |-> a.workspace,
     target_workspace |-> IF Truthy(a.target_workspace) THEN a.target_workspace
                          ELSE a.workspace,
     scratch |-> a.scratch,
     con_mark |-> a.con_mark,
     ignore_case |-> a.ignore_case,
     event_time_limit |-> a.event_time_limit,
     cycle |-> a.cycle,
     leave_fullscreen |-> a.leave_fullscreen,
     tree |-> NoTree,
     current_ws |-> None]

----------------------------------------------------------------------------
(* Raising *)

\* _choose_if_multiple that takes no notice of the target workspace
_choose_if_multiple_first(self, running) == running[1]

_choose_if_multiple(self, running) ==
    IF Len(running) = 1 THEN running[1]
    ELSE IF Truthy(self.target_workspace)
            /\ \E i \in 1..Len(running) : running[i].ws = self.target_workspace
    THEN running[CHOOSE i \in 1..Len(running) :
                    /\ running[i].ws = self.target_workspace
                    /\ \A j \in 1..(i - 1) : running[j].ws # self.target_workspace]
    ELSE running[1]

focus_window(window) == <<Req("focus", window.id, <<>>)>>
show_scratch(window) == <<Req("scratchpad show", window.id, <<>>)>>
switch_to_workspace_by_name(name) == <<Req("workspace", 0, name)>>

\* _handle_running_no_scratch that goes to the workspace of an unfocused window
\* before it focuses the window
_handle_running_no_scratch_switch_first(self, window) ==
    IF ~window.focused
    THEN IF window.ws # self.current_ws
         THEN switch_to_workspace_by_name(window.ws) \o focus_window(window)
         ELSE focus_window(window)
    ELSE IF self.current_ws = get_current_workspace(self)
    THEN switch_to_workspace_by_name(self.current_ws)
    ELSE <<>>

\* _handle_running_no_scratch that leaves a focused window alone
_handle_running_no_scratch_no_switch(self, window) ==
    IF ~window.focused THEN focus_window(window) ELSE <<>>

\* _handle_running_no_scratch that focuses the window and then goes to the
\* current workspace as well
_handle_running_no_scratch_focus_and_switch(self, window) ==
    (IF ~window.focused THEN focus_window(window) ELSE <<>>)
    \o (IF self.current_ws = get_current_workspace(self)
        THEN switch_to_workspace_by_name(self.current_ws)
        ELSE <<>>)

_handle_running_no_scratch(self, window) ==
    IF ~window.focused THEN focus_window(window)
    ELSE IF self.current_ws = get_current_workspace(self)
    THEN switch_to_workspace_by_name(self.current_ws)
    ELSE <<>>

\* _handle_running_scratch that shows the window whatever workspace it is on
_handle_running_scratch_always_show(self, window) == show_scratch(window)

\* _handle_running_scratch that focuses the window when it is focused already
_handle_running_scratch_refocus(self, window) ==
    IF ~window.focused
    THEN IF self.current_ws = window.ws THEN focus_window(window)
         ELSE show_scratch(window)
    ELSE focus_window(window)

_handle_running_scratch(self, window) ==
    IF ~window.focused
    THEN IF self.current_ws = window.ws THEN focus_window(window)
         ELSE show_scratch(window)
    ELSE show_scratch(window)

\* _handle_running_cycle without windows.append(windows[0]): nothing follows
\* the last window
_handle_running_cycle_no_wrap(self, windows) ==
    LET F == {i \in 1..Len(windows) : windows[i].focused}
        f == CHOOSE i \in F : \A j \in F : i <= j
    IN  IF F # {} /\ f < Len(windows) THEN focus_window(windows[f + 1]) ELSE <<>>

\* _handle_running_cycle with the break of its loop lost: w ends as the last
\* element of windows + [windows[0]]
_handle_running_cycle_no_break(self, windows) ==
    LET ext == Append(windows, windows[1])
        F == {i \in 1..Len(ext) : ext[i].focused}
        f == CHOOSE i \in F : \A j \in F : i <= j
    IN  IF F # {} /\ f < Len(ext) THEN focus_window(ext[Len(ext)]) ELSE <<>>

\* the window after the first focused one in windows + [windows[0]]
_handle_running_cycle(self, windows) ==
    LET ext == Append(windows, windows[1])
        F == {i \in 1..Len(ext) : ext[i].focused}
        f == CHOOSE i \in F : \A j \in F : i <= j
    IN  IF F # {} /\ f < Len(ext) THEN focus_window(ext[f + 1]) ELSE <<>>

\* the test of _handle_running without the search for a focused window
UsesCycle_any_focus(self, running) ==
    self.cycle /\ Len(running) > 1

UsesCycle(self, running) ==
    self.cycle /\ Len(running) > 1 /\ \E i \in 1..Len(running) : running[i].focused

_handle_running(self, running) ==
    IF UsesCycle(self, running) THEN _handle_running_cycle(self, running)
    ELSE IF self.scratch
    THEN _handle_running_scratch(self, _choose_if_multiple(self, running))
    ELSE _handle_running_no_scratch(self, _choose_if_multiple(self, running))

RaiseHandler(self, running) ==
    IF UsesCycle(self, running) THEN "_handle_running_cycle"
    ELSE IF self.scratch THEN "_handle_running_scratch"
    ELSE "_handle_running_no_scratch"

----------------------------------------------------------------------------
(* Launching *)

\* re.search("^pattern$", name) for a pattern made of literal characters, of
\* "." (any character) and of "+" after a character (one or more of it)
RECURSIVE Anchored(_, _)
Anchored(pattern, name) ==
    IF pattern = <<>> THEN name = <<>>
    ELSE IF Len(pattern) >= 2 /\ pattern[2] = "+"
    THEN \E k \in 1..Len(name) :
            /\ \A i \in 1..k : pattern[1] = "." \/ name[i] = pattern[1]
            /\ Anchored(SubSeq(pattern, 3, Len(pattern)), SubSeq(name, k + 1, Len(name)))
    ELSE /\ name # <<>>
         /\ pattern[1] = "." \/ name[1] = pattern[1]
         /\ Anchored(Tail(pattern), Tail(name))

\* find_named("^{}$".format(workspace_name))[0].find_fullscreen() on the
\* snapshot, in tree order: the workspace name is used as a regex; the first
\* container found is the workspace of the first leaf that lies on a workspace
\* the regex matches (a workspace without leaves has nothing in fullscreen
\* mode, and so has a window whose title the regex matches); exceptions are
\* the ids of the excepted windows
leave_fullscreen_on_workspace(self, workspace_name, exceptions) ==
    LET wins == self.tree.wins
        hits == {i \in 1..Len(wins) : Anchored(workspace_name, wins[i].ws)}
        first == CHOOSE i \in hits : \A j \in hits : i <= j
        on == IF hits = {} THEN {}
              ELSE {i \in 1..Len(wins) :
                      /\ wins[i].ws = wins[first].ws
                      /\ wins[i].fullscreen
                      /\ wins[i].id \notin exceptions}
        cons == SelectSeq2(wins, {wins[i].id : i \in on})
    IN  [i \in 1..Len(cons) |-> Req("fullscreen", cons[i].id, <<>>)]

\* run_command that sends the command a second time
run_command_twice(self) == <<Req("exec", 0, self.command), Req("exec", 0, self.command)>>

run_command(self) == <<Req("exec", 0, self.command)>>

\* Connection.main called without a timeout
MainTimeout_none(self) == 0

\* the timeout handed to Connection.main: the stored event_time_limit, which is
\* the argument as given; the timer thread of a limit given as text fails when
\* it starts to wait and the loop is never ended
MainTimeout(self) ==
    IF IsNum(self.event_time_limit) THEN self.event_time_limit.num ELSE 0

\* _handle_not_running with the launch command issued before the subscription
_handle_not_running_exec_first(self) ==
    (IF Truthy(self.target_workspace) /\ self.current_ws # self.target_workspace
     THEN switch_to_workspace_by_name(self.target_workspace) ELSE <<>>)
    \o (IF self.leave_fullscreen
        THEN leave_fullscreen_on_workspace(self,
                 IF Truthy(self.target_workspace) THEN self.target_workspace
                 ELSE self.current_ws, {})
        ELSE <<>>)
    \o run_command(self)
    \o (IF _need_to_listen_to_events(self)
        THEN <<Req("subscribe", 0, <<"w", "n">>), Req("main", 0, <<>>)>> ELSE <<>>)

\* _handle_not_running that goes to the target workspace whatever the current one
_handle_not_running_always_switch(self) ==
    (IF Truthy(self.target_workspace)
     THEN switch_to_workspace_by_name(self.target_workspace) ELSE <<>>)
    \o (IF self.leave_fullscreen
        THEN leave_fullscreen_on_workspace(self,
                 IF Truthy(self.target_workspace) THEN self.target_workspace
                 ELSE self.current_ws, {})
        ELSE <<>>)
    \o (IF _need_to_listen_to_events(self)
        THEN <<Req("subscribe", 0, <<"w", "n">>)>> ELSE <<>>)
    \o run_command(self)
    \o (IF _need_to_listen_to_events(self)
        THEN <<Req("main", 0, <<>>)>> ELSE <<>>)

_handle_not_running(self) ==
    (IF Truthy(self.target_workspace) /\ self.current_ws # self.target_workspace
     THEN switch_to_workspace_by_name(self.target_workspace) ELSE <<>>)
    \o (IF self.leave_fullscreen
        THEN leave_fullscreen_on_workspace(self,
                 IF Truthy(self.target_workspace) THEN self.target_workspace
                 ELSE self.current_ws, {})
        ELSE <<>>)
    \o (IF _need_to_listen_to_events(self)
        THEN <<Req("subscribe", 0, <<"w", "n">>)>> ELSE <<>>)
    \o run_command(self)
    \o (IF _need_to_listen_to_events(self)
        THEN <<Req("main", 0, <<>>)>> ELSE <<>>)

\* the first commands of the callback with the marker set before the scratchpad move
CallbackFirst_mark_first(self, window) ==
    IF _compare_running(self, window)
    THEN (IF Truthy(self.con_mark)
          THEN <<Req("mark", window.id, self.con_mark)>> ELSE <<>>)
         \o (IF self.scratch
             THEN <<Req("floating enable", window.id, <<>>),
                    Req("move scratchpad", window.id, <<>>),
                    Req("scratchpad show", window.id, <<>>)>>
             ELSE <<>>)
    ELSE <<>>

\* the commands of _callback_new_window that come before the tree is fetched again
CallbackFirst(self, window) ==
    IF _compare_running(self, window)
    THEN (IF self.scratch
          THEN <<Req("floating enable", window.id, <<>>),
                 Req("move scratchpad", window.id, <<>>),
                 Req("scratchpad show", window.id, <<>>)>>
          ELSE <<>>)
         \o (IF Truthy(self.con_mark)
             THEN <<Req("mark", window.id, self.con_mark)>> ELSE <<>>)
    ELSE <<>>

\* the rest of the callback with the target-workspace block outside the match test
CallbackSecond_unguarded(self, window, tree) ==
    IF Truthy(self.target_workspace)
    THEN <<Req("get_tree", 0, <<>>)>>
         \o (IF Win(tree.wins, window.id).ws # self.target_workspace
             THEN <<Req("move container to workspace", window.id, self.target_workspace)>>
             ELSE <<>>)
    ELSE <<>>

\* the rest of the callback, on the tree fetched from the connection
CallbackSecond(self, window, tree) ==
    IF _compare_running(self, window) /\ Truthy(self.target_workspace)
    THEN <<Req("get_tree", 0, <<>>)>>
         \o (IF Win(tree.wins, window.id).ws # self.target_workspace
             THEN <<Req("move container to workspace", window.id, self.target_workspace)>>
             ELSE <<>>)
    ELSE <<>>

\* find_by_id gives None for a window that is no longer in the tree fetched by
\* the callback, and w.workspace() raises AttributeError
CallbackFails(self, window, tree) ==
    /\ _compare_running(self, window)
    /\ Truthy(self.target_workspace)
    /\ ~HasWin(tree.wins, window.id)

----------------------------------------------------------------------------
(* run() *)

HasOp(reqs, op) == \E i \in 1..Len(reqs) : reqs[i].op = op

\* run() with the else of its branch lost: the launch follows the raise
run_no_else(self) ==
    LET running == _is_running(self) IN
    IF running # <<>>
    THEN [handlers |-> <<"_handle_running", RaiseHandler(self, running),
                         "_handle_not_running">>,
          reqs |-> _handle_running(self, running) \o _handle_not_running(self)]
    ELSE [handlers |-> <<"_handle_not_running">>,
          reqs |-> _handle_not_running(self)]

\* the handlers run() calls and the requests they issue up to the event loop
run(self) ==
    LET running == _is_running(self) IN
    IF running # <<>>
    THEN [handlers |-> <<"_handle_running", RaiseHandler(self, running)>>,
          reqs |-> _handle_running(self, running)]
    ELSE [handlers |-> <<"_handle_not_running">>,
          reqs |-> _handle_not_running(self)]

HistEntry(post, reqs, handlers) ==
    [pre |-> rol.tree, post |-> post, log |-> reqs, handlers |-> handlers,
     running |-> [i \in 1..Len(_is_running(rol)) |-> _is_running(rol)[i].id]]

\* the invocation started from the desktop the previous one left
Chained == hist # <<>> /\ hist[Len(hist)].post = rol.tree

----------------------------------------------------------------------------
(* Initial states: the arguments of the constructor and the desktop *)

Args ==
    [command : {Command},
     wm_class : {None, App},
     wm_instance : {None},
     wm_title : {None},
     workspace : {None, W1},
     target_workspace : {None, W1, W2},
     scratch : BOOLEAN,
     con_mark : {None, Mark},
     ignore_case : {FALSE},
     event_time_limit : {Num(0), Num(MaxTimeLimit)},
     cycle : BOOLEAN,
     leave_fullscreen : BOOLEAN]

NewWin(id, cls, ws, focused, fs) ==
    [id |-> id, window_class |-> cls, window_instance |-> cls, name |-> cls,
     window_title |-> cls, ws |-> ws, focused |-> focused,
     scratchpad_state |-> "none", marks |-> {}, fullscreen |-> fs]

\* an empty desktop, or one window on either workspace (a window of another
\* application may be in fullscreen mode), or two or three windows of the
\* application, the first of them focused; workspace 1 is focused
InitWorlds ==
    {[wins |-> <<>>, focusWs |-> W1]}
    \cup {[wins |-> <<NewWin(1, cls, ws, ws = W1, FALSE)>>, focusWs |-> W1] :
             cls \in {App, Other}, ws \in {W1, W2}}
    \cup {[wins |-> <<NewWin(1, Other, ws, ws = W1, TRUE)>>, focusWs |-> W1] :
             ws \in {W1, W2}}
    \cup {[wins |-> <<NewWin(1, App, W1, TRUE, FALSE), NewWin(2, App, W2, FALSE, FALSE)>>,
           focusWs |-> W1],
          [wins |-> <<NewWin(1, App, W2, FALSE, FALSE), NewWin(2, App, W1, TRUE, FALSE),
                      NewWin(3, App, W1, FALSE, FALSE)>>,
           focusWs |-> W1]}

Init ==
    /\ rol \in {NewRol(a) : a \in Args}
    /\ i3 \in InitWorlds
    /\ pc = "start"
    /\ log = <<>>
    /\ handler = <<>>
    /\ queue = <<>>
    /\ delivered = <<>>
    /\ timer = 0
    /\ clock = 0
    /\ launched = FALSE
    /\ runs = 0
    /\ hist = <<>>

----------------------------------------------------------------------------
(* Actions *)

\* a constructor that opens the connection and fetches the tree before _check_args
Construct_connects_first ==
    /\ pc \in {"start", "done"}
    /\ runs < MaxRuns
    /\ runs' = runs + 1
    /\ handler' = <<>>
    /\ queue' = <<>>
    /\ delivered' = <<>>
    /\ timer' = 0
    /\ clock' = 0
    /\ IF _check_args(rol) # ""
       THEN /\ pc' = "error"
            /\ log' = <<Req("get_tree", 0, <<>>)>>
            /\ rol' = [rol EXCEPT !.tree = i3, !.current_ws = i3.focusWs]
       ELSE /\ pc' = "ready"
            /\ log' = <<Req("get_tree", 0, <<>>)>>
            /\ rol' = [rol EXCEPT !.tree = i3, !.current_ws = i3.focusWs]
    /\ UNCHANGED <<i3, launched, hist>>

\* Raiseorlaunch(...): _check_args, then the connection, the tree and current_ws
Construct ==
    /\ pc \in {"start", "done"}
    /\ runs < MaxRuns
    /\ runs' = runs + 1
    /\ handler' = <<>>
    /\ queue' = <<>>
    /\ delivered' = <<>>
    /\ timer' = 0
    /\ clock' = 0
    /\ IF _check_args(rol) # ""
       THEN /\ pc' = "error"
            /\ log' = <<>>
            /\ rol' = [rol EXCEPT !.tree = NoTree, !.current_ws = None]
       ELSE /\ pc' = "ready"
            /\ log' = <<Req("get_tree", 0, <<>>)>>
            /\ rol' = [rol EXCEPT !.tree = i3, !.current_ws = i3.focusWs]
    /\ UNCHANGED <<i3, launched, hist>>

\* run() that takes the current workspace again once it has acted
Run_recaptures ==
    /\ pc = "ready"
    /\ LET r == run(rol) IN
       /\ log' = log \o r.reqs
       /\ handler' = r.handlers
       /\ i3' \in I3ApplySeq({i3}, r.reqs)
       /\ launched' = (launched \/ HasOp(r.reqs, "exec"))
       /\ IF HasOp(r.reqs, "main")
          THEN /\ pc' = "listening"
               /\ timer' = MainTimeout(rol)
               /\ clock' = 0
               /\ hist' = hist
          ELSE /\ pc' = "done"
               /\ hist' = IF r.handlers[1] = "_handle_running" /\ Chained
                          THEN Append(hist, HistEntry(i3', log', r.handlers))
                          ELSE IF r.handlers[1] = "_handle_running"
                          THEN <<HistEntry(i3', log', r.handlers)>>
                          ELSE <<>>
               /\ UNCHANGED <<timer, clock>>
    /\ rol' = [rol EXCEPT !.current_ws = i3'.focusWs]
    /\ UNCHANGED <<queue, delivered, runs>>

\* rol.run(), up to its return or to the point where Connection.main blocks
Run ==
    /\ pc = "ready"
    /\ LET r == run(rol) IN
       /\ log' = log \o r.reqs
       /\ handler' = r.handlers
       /\ i3' \in I3ApplySeq({i3}, r.reqs)
       /\ launched' = (launched \/ HasOp(r.reqs, "exec"))
       /\ IF HasOp(r.reqs, "main")
          THEN /\ pc' = "listening"
               /\ timer' = MainTimeout(rol)
               /\ clock' = 0
               /\ hist' = hist
          ELSE /\ pc' = "done"
               /\ hist' = IF r.handlers[1] = "_handle_running" /\ Chained
                          THEN Append(hist, HistEntry(i3', log', r.handlers))
                          ELSE IF r.handlers[1] = "_handle_running"
                          THEN <<HistEntry(i3', log', r.handlers)>>
                          ELSE <<>>
               /\ UNCHANGED <<timer, clock>>
    /\ UNCHANGED <<rol, queue, delivered, runs>>

\* what window the launched application may open and where: on the focused
\* workspace or on the one the window manager assigns it to
Placements == {App, Other} \X {W1, W2}

\* the id of a new container: one that no window seen so far has had
FreshId ==
    LET used == Ids(i3.wins) \cup Ids(rol.tree.wins) \cup Ids(queue)
                \cup {delivered[i].win : i \in 1..Len(delivered)}
    IN  CHOOSE n \in 1..(Cardinality(used) + 1) :
           /\ \A u \in used : u < n
           /\ \A m \in 1..(n - 1) : \E u \in used : m <= u

\* the application launched by this invocation opens a window: while the engine
\* listens, or after run() has returned if it did not listen, and before the
\* launcher is invoked again; a window on the focused workspace gets the focus;
\* the window manager tells the subscribers
NewWindow ==
    /\ HasOp(log, "exec")
    /\ pc = "listening" \/ (pc = "done" /\ ~HasOp(log, "main"))
    /\ FreshId <= MaxWins
    /\ \E p \in Placements :
          LET win == NewWin(FreshId, p[1], p[2], p[2] = i3.focusWs, FALSE) IN
          /\ i3' = [i3 EXCEPT !.wins =
                       Append(IF p[2] = i3.focusWs THEN Unfocus(i3.wins) ELSE i3.wins, win)]
          /\ queue' = IF pc = "listening" /\ HasOp(log, "subscribe")
                      THEN Append(queue, win) ELSE queue
    /\ hist' = <<>>
    /\ UNCHANGED <<rol, pc, log, handler, delivered, timer, clock, launched, runs>>

\* a callback that leaves the event loop once it has handled a matching window
Callback_quits ==
    /\ pc = "listening"
    /\ queue # <<>>
    /\ LET window == Head(queue)
           first == CallbackFirst(rol, window)
       IN  \E mid \in I3ApplySeq({i3}, first) :
              IF CallbackFails(rol, window, mid)
              THEN /\ i3' = mid
                   /\ log' = log \o first \o <<Req("get_tree", 0, <<>>)>>
                   /\ delivered' = Append(delivered,
                          [win |-> window.id,
                           matched |-> TRUE,
                           ws |-> None,
                           reqs |-> first \o <<Req("get_tree", 0, <<>>)>>])
                   /\ pc' = "failed"
              ELSE LET second == CallbackSecond(rol, window, mid) IN
                   /\ i3' \in I3ApplySeq({mid}, second)
                   /\ log' = log \o first \o second
                   /\ delivered' = Append(delivered,
                          [win |-> window.id,
                           matched |-> _compare_running(rol, window),
                           ws |-> IF HasWin(mid.wins, window.id)
                                  THEN Win(mid.wins, window.id).ws ELSE None,
                           reqs |-> first \o second])
                   /\ pc' = IF _compare_running(rol, window) THEN "done" ELSE pc
    /\ queue' = Tail(queue)
    /\ UNCHANGED <<rol, handler, timer, clock, launched, runs, hist>>

\* Connection.main hands the next event to _callback_new_window; an exception
\* of the callback ends the event loop and leaves run()
Callback ==
    /\ pc = "listening"
    /\ queue # <<>>
    /\ LET window == Head(queue)
           first == CallbackFirst(rol, window)
       IN  \E mid \in I3ApplySeq({i3}, first) :
              IF CallbackFails(rol, window, mid)
              THEN /\ i3' = mid
                   /\ log' = log \o first \o <<Req("get_tree", 0, <<>>)>>
                   /\ delivered' = Append(delivered,
                          [win |-> window.id,
                           matched |-> TRUE,
                           ws |-> None,
                           reqs |-> first \o <<Req("get_tree", 0, <<>>)>>])
                   /\ pc' = "failed"
              ELSE LET second == CallbackSecond(rol, window, mid) IN
                   /\ i3' \in I3ApplySeq({mid}, second)
                   /\ log' = log \o first \o second
                   /\ delivered' = Append(delivered,
                          [win |-> window.id,
                           matched |-> _compare_running(rol, window),
                           ws |-> IF HasWin(mid.wins, window.id)
                                  THEN Win(mid.wins, window.id).ws ELSE None,
                           reqs |-> first \o second])
                   /\ pc' = pc
    /\ queue' = Tail(queue)
    /\ UNCHANGED <<rol, handler, timer, clock, launched, runs, hist>>

\* time passes while Connection.main waits
Tick ==
    /\ pc = "listening"
    /\ timer = 0 \/ clock < timer
    /\ clock < MaxClock
    /\ clock' = clock + 1
    /\ UNCHANGED <<rol, pc, i3, log, handler, queue, delivered, timer, launched, runs, hist>>

\* the timer of Connection.main expires: main_quit, main returns and so does run()
Timeout ==
    /\ pc = "listening"
    /\ timer > 0
    /\ clock >= timer
    /\ pc' = "done"
    /\ queue' = <<>>
    /\ hist' = <<>>
    /\ UNCHANGED <<rol, i3, log, handler, delivered, timer, clock, launched, runs>>

Next == Construct \/ Run \/ NewWindow \/ Callback \/ Tick \/ Timeout

Spec == Init /\ [][Next]_vars

----------------------------------------------------------------------------
(* The finder on its own: one invocation of the launcher on a desktop that  *)
(* holds windows of every description                                      *)

\* class, instance, name and title of a window: all four set; another class;
\* no instance; no name and no title; none of class, instance and title on a
\* container that has a name
FindProps ==
    {[window_class |-> App, window_instance |-> App, name |-> App, window_title |-> App],
     [window_class |-> Other, window_instance |-> App, name |-> App, window_title |-> App],
     [window_class |-> App, window_instance |-> None, name |-> App, window_title |-> App],
     [window_class |-> App, window_instance |-> App, name |-> None, window_title |-> None],
     [window_class |-> None, window_instance |-> None, name |-> App, window_title |-> None]}

\* on either workspace, hidden in the scratchpad, or a scratchpad window shown
\* on the focused workspace
FindPlaces ==
    {[ws |-> W1, scratchpad_state |-> "none"],
     [ws |-> W2, scratchpad_state |-> "none"],
     [ws |-> Scratch, scratchpad_state |-> "fresh"],
     [ws |-> W1, scratchpad_state |-> "changed"]}

\* the scratchpad windows are application windows, which have all their
\* properties
FindKinds ==
    {k \in FindProps \X FindPlaces :
        k[2].scratchpad_state # "none"
            => (k[1].window_instance # None /\ k[1].window_title # None)}

\* the windows of a desktop, workspace 1 focused and the first window on it
\* holding the focus
FindWindows(kinds) ==
    [i \in 1..Len(kinds) |->
        [id |-> i,
         window_class |-> kinds[i][1].window_class,
         window_instance |-> kinds[i][1].window_instance,
         name |-> kinds[i][1].name,
         window_title |-> kinds[i][1].window_title,
         ws |-> kinds[i][2].ws,
         focused |-> /\ kinds[i][2].ws = W1
                     /\ \A j \in 1..(i - 1) : kinds[j][2].ws # W1,
         scratchpad_state |-> kinds[i][2].scratchpad_state,
         marks |-> {},
         fullscreen |-> FALSE]]

FindWorlds ==
    {[wins |-> FindWindows(kinds), focusWs |-> W1] :
        kinds \in UNION {[1..n -> FindKinds] : n \in 0..FindMaxWins}}

FindArgs ==
    [command : {Command},
     wm_class : {None, App},
     wm_instance : {None, App},
     wm_title : {None, <<>>, App, AnyString},
     workspace : {None, W1, W3},
     target_workspace : {None},
     scratch : BOOLEAN,
     con_mark : {None},
     ignore_case : {FALSE},
     event_time_limit : {Num(MaxTimeLimit)},
     cycle : {FALSE},
     leave_fullscreen : {FALSE}]

FindInit ==
    /\ rol \in {NewRol(a) : a \in FindArgs}
    /\ i3 \in FindWorlds
    /\ pc = "start"
    /\ log = <<>>
    /\ handler = <<>>
    /\ queue = <<>>
    /\ delivered = <<>>
    /\ timer = 0
    /\ clock = 0
    /\ launched = FALSE
    /\ runs = 0
    /\ hist = <<>>

FindNext == (runs = 0 /\ Construct) \/ Run

FindSpec == FindInit /\ [][FindNext]_vars

----------------------------------------------------------------------------
(* The marker lookup on its own: one invocation of the launcher with a      *)
(* con_mark on a desktop whose windows carry marks                         *)

\* a mark that is not the con_mark and has it as a part
MarkX == <<"m", "x">>

MarkKinds == {App, Other} \X {W1, W2} \X {{}, {Mark}, {MarkX}}

\* a mark is on one window at most; workspace 1 is focused and the first
\* window on it holds the focus
MarkWorlds ==
    {[wins |-> [i \in 1..Len(kinds) |->
                  [NewWin(i, kinds[i][1], kinds[i][2],
                          /\ kinds[i][2] = W1
                          /\ \A j \in 1..(i - 1) : kinds[j][2] # W1,
                          FALSE)
                   EXCEPT !.marks = kinds[i][3]]],
      focusWs |-> W1] :
        kinds \in {k \in UNION {[1..n -> MarkKinds] : n \in 0..FindMaxWins} :
                      \A i, j \in 1..Len(k) : i # j => k[i][3] \cap k[j][3] = {}}}

MarkArgs ==
    [command : {Command},
     wm_class : {App},
     wm_instance : {None},
     wm_title : {None},
     workspace : {None, W1},
     target_workspace : {None},
     scratch : BOOLEAN,
     con_mark : {Mark},
     ignore_case : {FALSE},
     event_time_limit : {Num(MaxTimeLimit)},
     cycle : BOOLEAN,
     leave_fullscreen : {FALSE}]

MarkInit ==
    /\ rol \in {NewRol(a) : a \in MarkArgs}
    /\ i3 \in MarkWorlds
    /\ pc = "start"
    /\ log = <<>>
    /\ handler = <<>>
    /\ queue = <<>>
    /\ delivered = <<>>
    /\ timer = 0
    /\ clock = 0
    /\ launched = FALSE
    /\ runs = 0
    /\ hist = <<>>

MarkNext == (runs = 0 /\ Construct) \/ Run

MarkSpec == MarkInit /\ [][MarkNext]_vars

----------------------------------------------------------------------------
(* The constructor on its own: every combination of the arguments that     *)
(* _check_args looks at, the event time limit given as a number or as a    *)
(* text of up to MaxText characters, and one invocation on an empty        *)
(* desktop if the construction succeeds                                    *)

TextChars == {"-", "0", "1", ".", "x"}

Texts == UNION {[1..n -> TextChars] : n \in 0..MaxText}

TimeLimits == {Num(n) : n \in -1..MaxTimeLimit} \cup {Str(s) : s \in Texts}

CheckArgs ==
    [command : {Command},
     wm_class : {None, <<>>, App},
     wm_instance : {None, App},
     wm_title : {None, App},
     workspace : {None, W1},
     target_workspace : {None, W1, W2},
     scratch : BOOLEAN,
     con_mark : {None, Mark},
     ignore_case : {FALSE},
     event_time_limit : TimeLimits,
     cycle : {FALSE},
     leave_fullscreen : {FALSE}]

CheckInit ==
    /\ rol \in {NewRol(a) : a \in CheckArgs}
    /\ i3 = [wins |-> <<>>, focusWs |-> W1]
    /\ pc = "start"
    /\ log = <<>>
    /\ handler = <<>>
    /\ queue = <<>>
    /\ delivered = <<>>
    /\ timer = 0
    /\ clock = 0
    /\ launched = FALSE
    /\ runs = 0
    /\ hist = <<>>

CheckNext == (runs = 0 /\ Construct) \/ Run

CheckSpec == CheckInit /\ [][CheckNext]_vars

----------------------------------------------------------------------------
(* The launching branch on its own: one invocation of the launcher that     *)
(* finds no window of the application, on a desktop whose windows may be   *)
(* in fullscreen mode; a workspace name may hold a character that means    *)
(* something in a regex                                                    *)

W2Plus == <<"2", "+">>

LeaveKinds == {W1, W2, W2Plus} \X BOOLEAN

\* up to FindMaxWins windows of another application; workspace 1 is focused
LeaveWorlds ==
    {[wins |-> [i \in 1..Len(k) |-> NewWin(i, Other, k[i][1], FALSE, k[i][2])],
      focusWs |-> W1] :
        k \in UNION {[1..n -> LeaveKinds] : n \in 0..FindMaxWins}}

LeaveArgs ==
    [command : {Command},
     wm_class : {App},
     wm_instance : {None},
     wm_title : {None},
     workspace : {None},
     target_workspace : {None, W2, W2Plus},
     scratch : {FALSE},
     con_mark : {None},
     ignore_case : {FALSE},
     event_time_limit : {Num(MaxTimeLimit)},
     cycle : {FALSE},
     leave_fullscreen : BOOLEAN]

LeaveInit ==
    /\ rol \in {NewRol(a) : a \in LeaveArgs}
    /\ i3 \in LeaveWorlds
    /\ pc = "start"
    /\ log = <<>>
    /\ handler = <<>>
    /\ queue = <<>>
    /\ delivered = <<>>
    /\ timer = 0
    /\ clock = 0
    /\ launched = FALSE
    /\ runs = 0
    /\ hist = <<>>

LeaveNext == (runs = 0 /\ Construct) \/ Run

LeaveSpec == LeaveInit /\ [][LeaveNext]_vars

----------------------------------------------------------------------------
(* The matcher on its own: one invocation of the launcher with a literal   *)
(* class pattern on a desktop of one window, the pattern and the class of  *)
(* the window being texts of up to MaxText letters of either case          *)

Letters == {"a", "A", "b"}

Words == UNION {[1..n -> Letters] : n \in 1..MaxText}

MatchWorlds ==
    {[wins |-> <<NewWin(1, value, W1, TRUE, FALSE)>>, focusWs |-> W1] : value \in Words}

MatchArgs ==
    [command : {Command},
     wm_class : Words,
     wm_instance : {None},
     wm_title : {None},
     workspace : {None},
     target_workspace : {None},
     scratch : {FALSE},
     con_mark : {None},
     ignore_case : BOOLEAN,
     event_time_limit : {Num(MaxTimeLimit)},
     cycle : {FALSE},
     leave_fullscreen : {FALSE}]

MatchInit ==
    /\ rol \in {NewRol(a) : a \in MatchArgs}
    /\ i3 \in MatchWorlds
    /\ pc = "start"
    /\ log = <<>>
    /\ handler = <<>>
    /\ queue = <<>>
    /\ delivered = <<>>
    /\ timer = 0
    /\ clock = 0
    /\ launched = FALSE
    /\ runs = 0
    /\ hist = <<>>

MatchNext == (runs = 0 /\ Construct) \/ Run

MatchSpec == MatchInit /\ [][MatchNext]_vars

----------------------------------------------------------------------------
(* The launcher on a desktop that changes under it: one invocation, during *)
(* which windows may be closed by their users, after the construction of   *)
(* the engine and while it listens                                         *)

\* the window manager removes a window that was closed; if it held the focus,
\* the focus moves on
Close ==
    /\ pc \in {"ready", "listening"}
    /\ \E id \in Ids(i3.wins) :
          LET rest == SelectSeq2(i3.wins, Ids(i3.wins) \ {id}) IN
          i3' \in IF Win(i3.wins, id).focused
                  THEN {[i3 EXCEPT !.wins = x] : x \in FocusSomeOn(rest, i3.focusWs)}
                  ELSE {[i3 EXCEPT !.wins = rest]}
    /\ hist' = <<>>
    /\ UNCHANGED <<rol, pc, log, handler, queue, delivered, timer, clock, launched, runs>>

RaceArgs ==
    [command : {Command},
     wm_class : {App},
     wm_instance : {None},
     wm_title : {None},
     workspace : {None},
     target_workspace : {None, W2},
     scratch : BOOLEAN,
     con_mark : {None, Mark},
     ignore_case : {FALSE},
     event_time_limit : {Num(MaxTimeLimit)},
     cycle : BOOLEAN,
     leave_fullscreen : {FALSE}]

RaceInit ==
    /\ rol \in {NewRol(a) : a \in RaceArgs}
    /\ i3 \in InitWorlds
    /\ pc = "start"
    /\ log = <<>>
    /\ handler = <<>>
    /\ queue = <<>>
    /\ delivered = <<>>
    /\ timer = 0
    /\ clock = 0
    /\ launched = FALSE
    /\ runs = 0
    /\ hist = <<>>

RaceNext ==
    (runs = 0 /\ Construct) \/ Close \/ Run \/ NewWindow \/ Callback \/ Tick \/ Timeout

RaceSpec == RaceInit /\ [][RaceNext]_vars

----------------------------------------------------------------------------
(* The launcher with a workspace scope and no target workspace: one        *)
(* invocation, with the windows that appear while it listens               *)

ScopeArgs ==
    [command : {Command},
     wm_class : {App},
     wm_instance : {None},
     wm_title : {None},
     workspace : {None, W1, W2},
     target_workspace : {None},
     scratch : {FALSE},
     con_mark : {None, Mark},
     ignore_case : {FALSE},
     event_time_limit : {Num(MaxTimeLimit)},
     cycle : BOOLEAN,
     leave_fullscreen : {FALSE}]

ScopeInit ==
    /\ rol \in {NewRol(a) : a \in ScopeArgs}
    /\ i3 \in InitWorlds
    /\ pc = "start"
    /\ log = <<>>
    /\ handler = <<>>
    /\ queue = <<>>
    /\ delivered = <<>>
    /\ timer = 0
    /\ clock = 0
    /\ launched = FALSE
    /\ runs = 0
    /\ hist = <<>>

ScopeNext ==
    (runs = 0 /\ Construct) \/ Run \/ NewWindow \/ Callback \/ Tick \/ Timeout

ScopeSpec == ScopeInit /\ [][ScopeNext]_vars

----------------------------------------------------------------------------
(* Properties of run() and of the launching branch *)

\* the requests that are commands (Connection.command, Con.command)
IsCommand(r) == r.op \notin {"get_tree", "subscribe", "main"}
Cmds(reqs) == SelectSeq(reqs, IsCommand)

\* run() has acted in the current invocation
Ran == pc \in {"listening", "done"}
Launching == Ran /\ handler = <<"_handle_not_running">>

\* C1: run() takes exactly one branch. With at least one match from the finder
\* it runs the raising handler, issues no exec, subscribes to nothing and does
\* not enter the event loop; with no match it runs the launching handler and
\* never the raising handler.
C1_OneBranch ==
    Ran =>
        IF _is_running(rol) # <<>>
        THEN /\ Len(handler) = 2
             /\ handler[1] = "_handle_running"
             /\ ~HasOp(log, "exec")
             /\ ~HasOp(log, "subscribe")
             /\ ~HasOp(log, "main")
             /\ pc = "done"
        ELSE /\ handler = <<"_handle_not_running">>
             /\ HasOp(log, "exec")

\* a second invocation raises the window the first one launched
C1_Witness ==
    /\ pc = "done"
    /\ runs >= 2
    /\ launched
    /\ _is_running(rol) # <<>>
    /\ handler[1] = "_handle_running"
    /\ HasOp(log, "focus")

\* C2: when a post-launch action is needed, launching subscribes to the
\* window-creation events, then issues exec, then enters the event loop, each
\* once; and while it listens every window opened since the launch has had
\* its event queued.
C2_SubscribeExecMain ==
    /\ (Launching /\ (rol.scratch \/ Truthy(rol.con_mark) \/ Truthy(rol.target_workspace)))
         => \E i, j, k \in 1..Len(log) :
               /\ i < j /\ j < k
               /\ log[i].op = "subscribe" /\ log[j].op = "exec" /\ log[k].op = "main"
               /\ \A n \in 1..Len(log) :
                     log[n].op \in {"subscribe", "exec", "main"} => n \in {i, j, k}
    /\ pc = "listening"
         => Ids(i3.wins) \ Ids(rol.tree.wins)
               \subseteq Ids(queue) \cup {delivered[n].win : n \in 1..Len(delivered)}

\* the application opened a window while the engine listened, and it was queued
C2_Witness ==
    /\ pc = "listening"
    /\ HasOp(log, "subscribe")
    /\ queue # <<>>
    /\ Ids(i3.wins) # Ids(rol.tree.wins)

\* C3: launching subscribes and enters the event loop exactly when scratchpad,
\* marker or target workspace is configured, and always both or neither; with
\* none configured it issues the launch command and returns.
C3_ListenIffNeeded ==
    Launching =>
        /\ HasOp(log, "subscribe")
             <=> (rol.scratch \/ Truthy(rol.con_mark) \/ Truthy(rol.target_workspace))
        /\ HasOp(log, "main") <=> HasOp(log, "subscribe")
        /\ HasOp(log, "exec")
        /\ ~HasOp(log, "main") => pc = "done"

\* only a target workspace is configured, and the engine listens
C3_Witness ==
    /\ Launching
    /\ ~rol.scratch /\ ~Truthy(rol.con_mark) /\ Truthy(rol.target_workspace)
    /\ pc = "listening"
    /\ HasOp(log, "subscribe")

----------------------------------------------------------------------------
(* Properties of the event callback and of the listening phase *)

ScratchCmds(id) ==
    <<Req("floating enable", id, <<>>), Req("move scratchpad", id, <<>>),
      Req("scratchpad show", id, <<>>)>>

\* C4: for a new window that matches, the callback issues, in this order,
\* floating enable, move scratchpad, scratchpad show if the scratchpad is
\* requested, then mark <marker> if a marker is configured, then move
\* container to workspace <target> if a target workspace is configured and
\* the window is not on it; a step whose condition is false is not issued.
C4_CallbackOrder ==
    \A n \in 1..Len(delivered) :
        LET d == delivered[n] IN
        d.matched =>
            Cmds(d.reqs) =
                (IF rol.scratch THEN ScratchCmds(d.win) ELSE <<>>)
                \o (IF Truthy(rol.con_mark)
                    THEN <<Req("mark", d.win, rol.con_mark)>> ELSE <<>>)
                \o (IF Truthy(rol.target_workspace) /\ d.ws # rol.target_workspace
                    THEN <<Req("move container to workspace", d.win, rol.target_workspace)>>
                    ELSE <<>>)

\* a matching window got the three scratchpad commands and then the marker
C4_Witness ==
    \E n \in 1..Len(delivered) :
        /\ delivered[n].matched
        /\ rol.scratch
        /\ Truthy(rol.con_mark)
        /\ Len(Cmds(delivered[n].reqs)) = 4

\* C5: a window-creation event for a window that does not match the criteria
\* causes no request at all: no scratchpad, mark or move command and no
\* fetch of the tree, whatever scratchpad, marker and target workspace are.
C5_UnmatchedIgnored ==
    \A n \in 1..Len(delivered) :
        (Truthy(rol.wm_class)
           /\ ~_match_regex(rol, rol.wm_class, Win(i3.wins, delivered[n].win).window_class))
        => delivered[n].reqs = <<>>

\* a window of another class arrived while marker and target workspace were set
C5_Witness ==
    \E n \in 1..Len(delivered) :
        /\ ~delivered[n].matched
        /\ Win(i3.wins, delivered[n].win).window_class = Other
        /\ Truthy(rol.con_mark)
        /\ Truthy(rol.target_workspace)
        /\ Win(i3.wins, delivered[n].win).ws # rol.target_workspace

\* C6: the listening phase does not end with the first matching window: every
\* matching event the loop delivers gets the configured actions, and the loop
\* is left only when the time limit has elapsed.
C6_AllMatchesHandled ==
    /\ \A n \in 1..Len(delivered) :
          Win(i3.wins, delivered[n].win).window_class = rol.wm_class =>
              /\ rol.scratch =>
                    \A c \in Range(ScratchCmds(delivered[n].win)) :
                        c \in Range(delivered[n].reqs)
              /\ Truthy(rol.con_mark) =>
                    Req("mark", delivered[n].win, rol.con_mark) \in Range(delivered[n].reqs)
              /\ Truthy(rol.target_workspace) =>
                    Win(i3.wins, delivered[n].win).ws = rol.target_workspace
    /\ (pc = "done" /\ HasOp(log, "main")) => clock >= rol.event_time_limit.num

\* two matching windows were handled in one listening phase
C6_Witness ==
    \E m, n \in 1..Len(delivered) :
        /\ m < n
        /\ delivered[m].matched /\ delivered[m].reqs # <<>>
        /\ delivered[n].matched /\ delivered[n].reqs # <<>>
        /\ pc = "listening"

----------------------------------------------------------------------------
(* Properties of the raising branch over consecutive invocations *)

\* what of a desktop is seen: the focused workspace and, for each window,
\* the workspace it is on and whether it is focused
FocusVis(tree) ==
    [focusWs |-> tree.focusWs,
     wins |-> [i \in 1..Len(tree.wins) |->
                  <<tree.wins[i].id, tree.wins[i].ws, tree.wins[i].focused>>]]

FocusedIds(tree) == {tree.wins[i].id : i \in {j \in 1..Len(tree.wins) : tree.wins[j].focused}}

\* invocation i of the chain raised through the scratchpad handler, with one
\* matching window, shown on the focused workspace and focused
VisibleScratchMatch(i) ==
    /\ i \in 1..Len(hist)
    /\ hist[i].handlers = <<"_handle_running", "_handle_running_scratch">>
    /\ Len(hist[i].running) = 1
    /\ LET w == Win(hist[i].pre.wins, hist[i].running[1]) IN
          w.focused /\ w.ws = hist[i].pre.focusWs /\ w.scratchpad_state # "none"

\* C8 as stated: with the single matching scratchpad window shown and focused,
\* two invocations in succession leave the focus and visibility one leaves
C8_Idempotent ==
    \A i \in 1..Len(hist) :
        (VisibleScratchMatch(i) /\ i + 1 <= Len(hist))
            => FocusVis(hist[i + 1].post) = FocusVis(hist[i].post)

\* C8, amended: raising through the scratchpad toggles.  With the single
\* matching scratchpad window shown and focused, one invocation issues one
\* "scratchpad show" on it, which hides it; a second invocation in succession
\* issues it again and restores the focus and visibility from before the first
C8_Toggles ==
    \A i \in 1..Len(hist) :
        VisibleScratchMatch(i) =>
            LET id == hist[i].running[1] IN
            /\ Cmds(hist[i].log) = <<Req("scratchpad show", id, <<>>)>>
            /\ Win(hist[i].post.wins, id).ws = Scratch
            /\ ~Win(hist[i].post.wins, id).focused
            /\ i + 1 <= Len(hist) =>
                  /\ Cmds(hist[i + 1].log) = <<Req("scratchpad show", id, <<>>)>>
                  /\ FocusVis(hist[i + 1].post) = FocusVis(hist[i].pre)
                  /\ FocusVis(hist[i + 1].post) # FocusVis(hist[i].post)

\* two invocations in succession have started from a shown, focused match
C8_Witness ==
    /\ Len(hist) >= 2
    /\ VisibleScratchMatch(1)
    /\ pc = "done"

\* invocations i .. i + N - 1 of the chain, N the number of matches of the i-th
CycleRound(i) ==
    /\ i \in 1..Len(hist)
    /\ hist[i].handlers = <<"_handle_running", "_handle_running_cycle">>
    /\ i + Len(hist[i].running) - 1 <= Len(hist)

\* C9: with the cycle option and N >= 2 matches, one of them focused, N
\* invocations in succession are N cycling steps over the same matches, the
\* windows they focus are the N matches, each once, and the last one focused
\* is the window that had the focus before the first invocation
C9_CyclingIsCircular ==
    \A i \in 1..Len(hist) :
        CycleRound(i) =>
            LET N == Len(hist[i].running)
                target(j) == FocusedIds(hist[j].post)
            IN  /\ N >= 2
                /\ \A j \in i..(i + N - 1) :
                      /\ hist[j].handlers = hist[i].handlers
                      /\ hist[j].running = hist[i].running
                      /\ Cardinality(target(j)) = 1
                /\ UNION {target(j) : j \in i..(i + N - 1)}
                       = {hist[i].running[k] : k \in 1..N}
                /\ \A j, k \in i..(i + N - 1) : j # k => target(j) # target(k)
                /\ target(i + N - 1) = FocusedIds(hist[i].pre)

\* a round over three matches has been completed
C9_Witness ==
    /\ CycleRound(1)
    /\ Len(hist[1].running) = 3
    /\ pc = "done"

\* the matches of the invocation that has just run, and the place of the
\* focused one among them
CycleMatches == _is_running(rol)
CycleFocusedAt == CHOOSE k \in 1..Len(CycleMatches) : CycleMatches[k].focused
CycleStepDone ==
    pc = "done" /\ handler = <<"_handle_running", "_handle_running_cycle">>

\* C10: a cycling step issues one command, a focus on the match that follows
\* the focused match in tree order, the first match following the last; that
\* match is not the focused one and is one of the matches
C10_CycleStepSuccessor ==
    CycleStepDone =>
        LET N == Len(CycleMatches)
            succ == CycleMatches[(CycleFocusedAt % N) + 1]
        IN  /\ Cardinality({k \in 1..N : CycleMatches[k].focused}) = 1
            /\ Cmds(log) = <<Req("focus", succ.id, <<>>)>>
            /\ ~succ.focused
            /\ succ.id \in Ids(CycleMatches)
            /\ FocusedIds(i3) = {succ.id}

\* a cycling step from the last match, which wraps around to the first
C10_Witness ==
    /\ CycleStepDone
    /\ Len(CycleMatches) = 3
    /\ CycleFocusedAt = 3
    /\ Cmds(log) = <<Req("focus", CycleMatches[1].id, <<>>)>>

----------------------------------------------------------------------------
(* Properties of one raising invocation *)

Raised == pc = "done" /\ Len(handler) = 2 /\ handler[1] = "_handle_running"

\* the matches of the invocation and the one the raise handlers are given
Matches == _is_running(rol)
Chosen == _choose_if_multiple(rol, Matches)
SomeMatchFocused == \E k \in 1..Len(Matches) : Matches[k].focused

\* C11: the cycle handler runs exactly when the cycle option is set, there are
\* at least two matches and one of them is focused; in every other case the
\* scratchpad or the non-scratchpad handler runs, by the scratch option, and
\* issues its one command on the window chosen among the matches or, for a
\* workspace switch, on the connection
C11_CycleOnlyWhenFocusedMulti ==
    Raised =>
        LET cycling == rol.cycle /\ Len(Matches) >= 2 /\ SomeMatchFocused IN
        /\ (handler[2] = "_handle_running_cycle") <=> cycling
        /\ ~cycling =>
              /\ handler[2] = IF rol.scratch THEN "_handle_running_scratch"
                              ELSE "_handle_running_no_scratch"
              /\ Len(Cmds(log)) = 1
              /\ Cmds(log)[1].win \in {0, Chosen.id}

\* the cycle option is set and there are two matches, neither of them focused
C11_Witness ==
    /\ Raised
    /\ rol.cycle
    /\ Len(Matches) >= 2
    /\ ~SomeMatchFocused
    /\ handler[2] = "_handle_running_no_scratch"

\* the place in the match list of the window to raise, from the list and the
\* target workspace alone
ExpectedChoice(running, target) ==
    LET onTarget == {k \in 1..Len(running) : running[k].ws = target} IN
    IF Len(running) >= 2 /\ Truthy(target) /\ onTarget # {}
    THEN CHOOSE k \in onTarget : \A j \in onTarget : k <= j
    ELSE 1

\* C12: for a non-empty match list the window chosen is a member of the list:
\* the only one, or with several the first on the target workspace when there
\* is a target workspace and a match on it, the first of the list otherwise;
\* the raise handlers send their command to that window
C12_ChoiceByTargetWorkspace ==
    (pc \in {"ready", "done"} /\ Matches # <<>>) =>
        LET e == ExpectedChoice(Matches, rol.target_workspace) IN
        /\ Chosen = Matches[e]
        /\ Chosen.id \in Ids(Matches)
        /\ (Raised /\ handler[2] # "_handle_running_cycle") =>
              \A k \in 1..Len(Cmds(log)) :
                  /\ Cmds(log)[k].win \in {0, Matches[e].id}
                  /\ Cmds(log)[k].win = 0 => Matches[e].focused

\* several matches, the first of them off the target workspace, a later one on
\* it, which has been focused
C12_Witness ==
    /\ Raised
    /\ Len(Matches) >= 2
    /\ Truthy(rol.target_workspace)
    /\ Matches[1].ws # rol.target_workspace
    /\ ExpectedChoice(Matches, rol.target_workspace) > 1
    /\ Cmds(log) = <<Req("focus", Matches[ExpectedChoice(Matches, rol.target_workspace)].id, <<>>)>>

NoScratchRaised == Raised /\ handler[2] = "_handle_running_no_scratch"

\* C13: raising without the scratchpad a window that is not focused issues one
\* command, a focus on that window, and no workspace switch, whether or not the
\* window is on the current workspace
C13_UnfocusedIsFocused ==
    (NoScratchRaised /\ ~Chosen.focused) =>
        /\ Cmds(log) = <<Req("focus", Chosen.id, <<>>)>>
        /\ ~HasOp(log, "workspace")

\* the window raised was on another workspace than the current one
C13_Witness ==
    /\ NoScratchRaised
    /\ ~Chosen.focused
    /\ Chosen.ws # rol.current_ws
    /\ i3.focusWs = Chosen.ws

\* C14: raising without the scratchpad a window that is focused already issues
\* one command, a switch to the current workspace, and no focus, when the
\* focused workspace is the one captured at construction, and no command when
\* it is another one
C14_FocusedSwitchesToCurrent ==
    (NoScratchRaised /\ Chosen.focused) =>
        IF rol.tree.focusWs = rol.current_ws
        THEN Cmds(log) = <<Req("workspace", 0, rol.current_ws)>>
        ELSE Cmds(log) = <<>>

\* the focused match has been answered with a switch to its own workspace
C14_Witness ==
    /\ NoScratchRaised
    /\ Chosen.focused
    /\ Chosen.ws = rol.current_ws
    /\ HasOp(log, "workspace")

ScratchRaised == Raised /\ handler[2] = "_handle_running_scratch"

\* C15: raising through the scratchpad issues one command, on the chosen
\* window: a focus when the window is not focused and is on the current
\* workspace, a scratchpad show when it is not focused and on another
\* workspace, a scratchpad show when it is focused
C15_ScratchOneCommand ==
    ScratchRaised =>
        Cmds(log) = <<Req(IF ~Chosen.focused /\ Chosen.ws = rol.current_ws
                          THEN "focus" ELSE "scratchpad show",
                          Chosen.id, <<>>)>>

\* a scratchpad window shown on the current workspace without the focus has
\* been focused
C15_Witness ==
    /\ ScratchRaised
    /\ ~Chosen.focused
    /\ Chosen.ws = rol.current_ws
    /\ Cmds(log) = <<Req("focus", Chosen.id, <<>>)>>

----------------------------------------------------------------------------
(* Properties of the matcher and of the finder *)

Constructed == pc \in {"ready", "listening", "done"}
PropertyMode == Constructed /\ ~Truthy(rol.con_mark)
TreeWindows == {rol.tree.wins[i] : i \in 1..Len(rol.tree.wins)}
Candidates == _get_window_list(rol)
Launched == pc \in {"listening", "done"} /\ handler = <<"_handle_not_running">>

\* a non-empty pattern and a value it matches
Accepts(pattern, value) == Truthy(value) /\ _match_regex(rol, pattern, value)

AllPatternsAccept(w) ==
    /\ Truthy(rol.wm_class) => Accepts(rol.wm_class, w.window_class)
    /\ Truthy(rol.wm_instance) => Accepts(rol.wm_instance, w.window_instance)
    /\ Truthy(rol.wm_title) => Accepts(rol.wm_title, w.name)

AllAbsent(w) ==
    w.window_class = None /\ w.window_instance = None /\ w.window_title = None

\* C16: a window is among the matches only if every non-empty pattern of
\* class, instance and title matches its property; a window whose class fails
\* a non-empty class pattern is not, whatever the other patterns; and the empty
\* patterns exclude nothing: a candidate that has some property and passes
\* every non-empty pattern is a match
C16_MatcherConjunction ==
    PropertyMode =>
        \A w \in TreeWindows :
            /\ w.id \in Ids(Matches) => AllPatternsAccept(w)
            /\ (Truthy(rol.wm_class) /\ ~Accepts(rol.wm_class, w.window_class))
                  => (w.id \notin Ids(Matches) /\ ~_compare_running(rol, w))
            /\ (w.id \in Ids(Candidates) /\ ~AllAbsent(w) /\ AllPatternsAccept(w))
                  => w.id \in Ids(Matches)

\* all three patterns set, a window that fails the class pattern alone, and
\* the application launched
C16_Witness ==
    /\ Launched
    /\ Truthy(rol.wm_class) /\ Truthy(rol.wm_instance) /\ Truthy(rol.wm_title)
    /\ \E w \in TreeWindows :
          /\ w.id \in Ids(Candidates)
          /\ ~Accepts(rol.wm_class, w.window_class)
          /\ Accepts(rol.wm_instance, w.window_instance)
          /\ Accepts(rol.wm_title, w.name)

\* the window has no value for a property that a non-empty pattern asks for
MissesRequired(w) ==
    \/ Truthy(rol.wm_class) /\ w.window_class = None
    \/ Truthy(rol.wm_instance) /\ w.window_instance = None
    \/ Truthy(rol.wm_title) /\ w.name = None

\* C17: a window without a value for a property that a non-empty pattern asks
\* for is no match, whatever the pattern and the other properties, for the
\* finder and for the callback of a new window, which does nothing with it
C17_MissingNeverMatches ==
    PropertyMode =>
        \A w \in TreeWindows :
            MissesRequired(w) =>
                /\ w.id \notin Ids(Matches)
                /\ ~_compare_running(rol, w)
                /\ CallbackFirst(rol, w) = <<>>
                /\ CallbackSecond(rol, w, rol.tree) = <<>>

\* the only pattern matches every string, the only window has no title, and
\* the application has been launched
C17_Witness ==
    /\ Launched
    /\ rol.wm_title = AnyString
    /\ ~Truthy(rol.wm_class) /\ ~Truthy(rol.wm_instance)
    /\ Candidates # <<>>
    /\ \A w \in TreeWindows : w.name = None /\ w.window_class # None

\* C18: a window none of whose class, instance and title has a value is not
\* among the matches, whatever the patterns
C18_NoPropertiesSkipped ==
    PropertyMode =>
        \A w \in TreeWindows : AllAbsent(w) => w.id \notin Ids(Matches)

\* the title pattern matches the name of a container that has none of class,
\* instance and title, the only candidate, and the application has been launched
C18_Witness ==
    /\ Launched
    /\ Candidates # <<>>
    /\ \A w \in TreeWindows : AllAbsent(w) /\ AllPatternsAccept(w)

\* C19: with a workspace to search, the candidates are the windows of the
\* workspace of that name, in tree order, and every match is on it; when no
\* workspace has the name there is no candidate, construction and the finder
\* raise no error, and run() launches
C19_WorkspaceScope ==
    (PropertyMode /\ Truthy(rol.workspace)) =>
        /\ \A w \in TreeWindows : w.id \in Ids(Candidates) <=> w.ws = rol.workspace
        /\ Candidates = SelectSeq(rol.tree.wins, LAMBDA w : w.ws = rol.workspace)
        /\ \A k \in 1..Len(Matches) : Matches[k].ws = rol.workspace
        /\ (\A w \in TreeWindows : w.ws # rol.workspace) =>
              /\ Candidates = <<>>
              /\ Matches = <<>>
              /\ pc # "ready" => (Launched /\ HasOp(log, "exec"))

\* the workspace to search does not exist, a window on another workspace
\* passes every pattern, and the application has been launched
C19_Witness ==
    /\ Launched
    /\ rol.workspace = W3
    /\ HasOp(log, "exec")
    /\ \E w \in TreeWindows : ~AllAbsent(w) /\ AllPatternsAccept(w)

InScratchpad(w) == w.scratchpad_state \in {"fresh", "changed"}

\* C20: with no workspace to search, the candidates are, in tree order, the
\* windows whose scratchpad state is fresh or changed when the scratch option
\* is set, and every window of the tree when it is not; with the option set a
\* window outside the scratchpad is no match and, when no scratchpad window
\* matches, the application is launched
C20_ScratchScope ==
    (PropertyMode /\ ~Truthy(rol.workspace)) =>
        /\ Candidates = IF rol.scratch THEN SelectSeq(rol.tree.wins, InScratchpad)
                        ELSE rol.tree.wins
        /\ rol.scratch => \A k \in 1..Len(Matches) : InScratchpad(Matches[k])
        /\ (rol.scratch /\ pc # "ready"
                /\ \A w \in TreeWindows : InScratchpad(w) => ~AllPatternsAccept(w))
              => (Launched /\ HasOp(log, "exec"))

\* the scratch option is set, a window outside the scratchpad passes every
\* pattern, and the application has been launched
C20_Witness ==
    /\ Launched
    /\ rol.scratch
    /\ HasOp(log, "exec")
    /\ \E w \in TreeWindows :
          ~InScratchpad(w) /\ ~AllAbsent(w) /\ AllPatternsAccept(w)

\* place of a window in the traversal of the tree
TreeIndex(w) == CHOOSE i \in 1..Len(rol.tree.wins) : rol.tree.wins[i].id = w.id

\* C21: the matches are a subsequence of the tree traversal: each is a window
\* of the tree, none occurs twice, they come in the order of the traversal, and
\* the first of them is the earliest window of the traversal that is a match
C21_MatchesInTreeOrder ==
    PropertyMode =>
        /\ \A k \in 1..Len(Matches) : Matches[k] \in TreeWindows
        /\ \A j, k \in 1..Len(Matches) :
              j < k <=> TreeIndex(Matches[j]) < TreeIndex(Matches[k])
        /\ Matches # <<>> =>
              \A w \in TreeWindows :
                  (w.id \in Ids(Candidates) /\ ~AllAbsent(w) /\ AllPatternsAccept(w))
                      => TreeIndex(Matches[1]) <= TreeIndex(w)

\* two matches, neither focused, and the one that comes first in the tree has
\* been focused
C21_Witness ==
    /\ Raised
    /\ Len(Matches) = 2
    /\ ~SomeMatchFocused
    /\ TreeIndex(Matches[1]) < TreeIndex(Matches[2])
    /\ Cmds(log) = <<Req("focus", Matches[1].id, <<>>)>>

----------------------------------------------------------------------------
(* Properties of the marker lookup *)

MarkerMode == Constructed /\ Truthy(rol.con_mark)

\* C22: with a con_mark the windows found are those that carry the mark,
\* whatever their properties and the scratch option: every window found
\* carries it, and without a workspace to search every window that carries it
\* is found
C22_MarkerLookupOnly ==
    MarkerMode =>
        \A w \in TreeWindows :
            /\ w.id \in Ids(Matches) => rol.con_mark \in w.marks
            /\ (rol.con_mark \in w.marks /\ ~Truthy(rol.workspace))
                  => w.id \in Ids(Matches)

\* the marks the lookup takes for the con_mark
LookupHit(w) == \E m \in w.marks : Search(rol.con_mark, m)

\* C23: with a con_mark and a workspace to search, every window found is on
\* that workspace, every window on that workspace that the lookup hits is
\* found, and no command goes to a window of another workspace, however many
\* windows the lookup hits
C23_MarkerWorkspaceScope ==
    (MarkerMode /\ Truthy(rol.workspace)) =>
        /\ \A k \in 1..Len(Matches) : Matches[k].ws = rol.workspace
        /\ \A w \in TreeWindows :
              (LookupHit(w) /\ w.ws = rol.workspace) => w.id \in Ids(Matches)
        /\ Raised =>
              \A k \in 1..Len(Cmds(log)) :
                  Cmds(log)[k].win # 0
                      => Win(rol.tree.wins, Cmds(log)[k].win).ws = rol.workspace

----------------------------------------------------------------------------
(* Properties of the constructor *)

NoCriteria == "You need to specify \"wm_class\", \"wm_instance\" or \"wm_title."
ScratchOnWorkspace == "You cannot use the scratchpad on a specific workspace."
BadTimeLimit == "The event time limit must be a positive integer or float!"
Ambiguous == "Setting workspace and initial workspace is ambiguous!"

\* the constructor has returned or raised
Settled == pc # "start"

\* the constructor raised this error
Raises(message) == pc = "error" /\ _check_args(rol) = message

Empty(pattern) == pattern = None \/ pattern = <<>>

NoPattern == Empty(rol.wm_class) /\ Empty(rol.wm_instance) /\ Empty(rol.wm_title)

\* C24 as stated: the constructor raises the missing-criteria error exactly
\* when the class, instance and title patterns are all empty and no marker is
\* set, so that a marker with no pattern passes this check
C24_RejectedWithoutPatternAndMarker ==
    Settled => (Raises(NoCriteria) <=> (NoPattern /\ Empty(rol.con_mark)))

\* C24: the constructor raises the missing-criteria error exactly when the
\* class, instance and title patterns are all empty, whether or not a marker
\* is set; with at least one non-empty pattern this check passes
C24_RejectedWithoutPattern ==
    Settled => (Raises(NoCriteria) <=> NoPattern)

C24_Witness ==
    /\ Raises(NoCriteria)
    /\ NoPattern
    /\ rol.con_mark = Mark
    /\ log = <<>>

\* C25: scratch together with a workspace or a target workspace makes the
\* constructor raise an error, and an engine that was constructed has scratch
\* unset or neither workspace nor target workspace set
C25_ScratchExcludesWorkspace ==
    Settled =>
      /\ (rol.scratch /\ (~Empty(rol.workspace) \/ ~Empty(rol.target_workspace)))
            => pc = "error"
      /\ Constructed =>
            (~rol.scratch \/ (Empty(rol.workspace) /\ Empty(rol.target_workspace)))

C25_Witness ==
    /\ Raises(ScratchOnWorkspace)
    /\ rol.scratch
    /\ Empty(rol.workspace)
    /\ rol.target_workspace = W2

\* a text that reads as a decimal numeral: an optional sign, then digits with
\* at most one decimal point among them, and at least one digit
Numeral(s) ==
    \E k \in {0, 1} :
      /\ k <= Len(s)
      /\ k = 1 => s[1] \in {"-", "+"}
      /\ \E p \in k..Len(s) :
            /\ p > k => s[p] = "."
            /\ \A i \in ((k + 1)..Len(s)) \ {p} : s[i] \in Digits
            /\ \E i \in ((k + 1)..Len(s)) \ {p} : s[i] \in Digits

\* the limit is a strictly positive number, or the numeral of one
PositiveLimit(v) ==
    IF IsNum(v) THEN v.num > 0
    ELSE /\ Numeral(v.str)
         /\ v.str[1] # "-"
         /\ \E i \in 1..Len(v.str) : v.str[i] \in Digits \ {"0"}

\* C26: a limit that is zero, negative or no numeral makes the constructor
\* raise an error, the time-limit error when the checks before it pass; a
\* strictly positive number, also given as a numeral, never raises the
\* time-limit error; check_positive is false exactly for the rejected limits,
\* and gives the number for a numeral
C26_TimeLimitPositive ==
    /\ Settled =>
         /\ ~PositiveLimit(rol.event_time_limit) =>
               /\ pc = "error"
               /\ (~NoPattern /\ ~(rol.scratch /\ ~Empty(rol.target_workspace)))
                     => Raises(BadTimeLimit)
         /\ PositiveLimit(rol.event_time_limit) => ~Raises(BadTimeLimit)
         /\ (check_positive(rol.event_time_limit) = False)
               <=> ~PositiveLimit(rol.event_time_limit)
    /\ check_positive(Str(<<"1">>)) = check_positive(Num(1))
    /\ check_positive(Str(<<"1", ".", "0">>)) = check_positive(Num(1))
    /\ check_positive(Str(<<"1", "0">>)) = float(Num(10))

C26_Witness ==
    /\ Raises(BadTimeLimit)
    /\ rol.event_time_limit = Str(<<"1", "x">>)
    /\ rol.wm_class = App

\* C27: a workspace and a target workspace of different names make the
\* constructor raise an error, the ambiguity error when the checks before it
\* pass; with the same name for both, and nothing else wrong, the engine is
\* constructed
C27_WorkspaceAmbiguity ==
    Settled =>
      /\ (~Empty(rol.workspace) /\ ~Empty(rol.target_workspace)
            /\ rol.workspace # rol.target_workspace)
           => /\ pc = "error"
              /\ (~NoPattern /\ ~rol.scratch /\ PositiveLimit(rol.event_time_limit))
                    => Raises(Ambiguous)
      /\ (~Empty(rol.workspace) /\ rol.workspace = rol.target_workspace
            /\ ~NoPattern /\ ~rol.scratch /\ PositiveLimit(rol.event_time_limit))
           => Constructed

C27_Witness ==
    /\ Raises(Ambiguous)
    /\ rol.workspace = W1
    /\ rol.target_workspace = W2

----------------------------------------------------------------------------
(* Properties of the launching handler *)

\* the positions of the requests of this kind in the log of the invocation
At(op) == {i \in 1..Len(log) : log[i].op = op}

\* C28: in the launching branch a switch to the target workspace is sent
\* exactly when a target workspace is set and differs from the current
\* workspace of the snapshot; it is sent once, names the target workspace and
\* comes before the exec
C28_SwitchIffTargetDiffers ==
    Launching =>
      /\ (At("workspace") # {})
            <=> (~Empty(rol.target_workspace) /\ rol.target_workspace # rol.current_ws)
      /\ Cardinality(At("workspace")) <= 1
      /\ At("exec") # {}
      /\ \A i \in At("workspace") :
            /\ log[i] = Req("workspace", 0, rol.target_workspace)
            /\ \A j \in At("exec") : i < j

C28_Witness ==
    /\ Launching
    /\ pc = "done"
    /\ rol.current_ws = W1
    /\ rol.target_workspace = W2
    /\ \E i \in At("workspace") : \E j \in At("exec") :
          i < j /\ log[i] = Req("workspace", 0, W2)

\* the workspace whose fullscreen windows the launching branch attends to
LeaveWorkspace ==
    IF Empty(rol.target_workspace) THEN rol.current_ws ELSE rol.target_workspace

\* the number of fullscreen commands a window gets in a sequence of requests
Toggles(reqs, id) ==
    Cardinality({i \in 1..Len(reqs) : reqs[i] = Req("fullscreen", id, <<>>)})

\* C29: in the launching branch with leave_fullscreen set, every window of the
\* snapshot that is in fullscreen mode on the target workspace (the current
\* one when no target is set) gets exactly one fullscreen command and every
\* other window gets none, all of them before the exec; with a list of
\* exceptions the excepted windows get none; with leave_fullscreen unset no
\* fullscreen command is sent
C29_LeaveFullscreen ==
    Launching =>
      /\ \A i \in 1..Len(rol.tree.wins) :
            LET w == rol.tree.wins[i] IN
            Toggles(log, w.id) =
              IF rol.leave_fullscreen /\ w.fullscreen /\ w.ws = LeaveWorkspace
              THEN 1 ELSE 0
      /\ \A i \in At("fullscreen") :
            /\ HasWin(rol.tree.wins, log[i].win)
            /\ \A j \in At("exec") : i < j
      /\ \A exceptions \in SUBSET Ids(rol.tree.wins) :
            \A i \in 1..Len(rol.tree.wins) :
              rol.leave_fullscreen =>
              LET w == rol.tree.wins[i] IN
              Toggles(leave_fullscreen_on_workspace(rol, LeaveWorkspace, exceptions), w.id) =
                IF w.fullscreen /\ w.ws = LeaveWorkspace /\ w.id \notin exceptions
                THEN 1 ELSE 0

\* C30: in the launching branch the exec of the command is sent exactly once,
\* whatever windows appear afterwards, and no invocation sends the same
\* command twice
C30_ExecOnce ==
    /\ Launching =>
         /\ Cardinality(At("exec")) = 1
         /\ \A i \in At("exec") : log[i] = Req("exec", 0, rol.command)
    /\ Ran =>
         \A i, j \in 1..Len(log) :
           (i < j /\ IsCommand(log[i])) => log[i] # log[j]

C30_Witness ==
    /\ Launching
    /\ pc = "done"
    /\ HasOp(log, "main")
    /\ At("mark") # {}
    /\ At("move container to workspace") # {}
    /\ Cardinality(At("exec")) = 1

----------------------------------------------------------------------------
(* Properties of the pattern match *)

Upper(c) == IF c = "a" THEN "A" ELSE IF c = "b" THEN "B" ELSE c

\* the text as the comparison sees it
Folded(s) == IF rol.ignore_case THEN [i \in 1..Len(s) |-> Upper(s[i])] ELSE s

\* the pattern is found in the value at this offset
OccursAt(pattern, value, k) ==
    /\ k + Len(pattern) <= Len(value)
    /\ Folded(SubSeq(value, k + 1, k + Len(pattern))) = Folded(pattern)

\* C31: a literal pattern matches a value exactly when the value begins with
\* it, whether or not the value goes on after it, and not when the pattern
\* only occurs later in the value; letter case is ignored on both sides when
\* ignore_case is set and makes the match fail when it is not
C31_PrefixMatch ==
    (Ran /\ Len(rol.tree.wins) = 1 /\ rol.wm_class \in Words
         /\ Empty(rol.wm_instance) /\ Empty(rol.wm_title) /\ Empty(rol.con_mark)
         /\ Empty(rol.workspace) /\ ~rol.scratch
         /\ rol.tree.wins[1].window_class \in Words) =>
      LET value == rol.tree.wins[1].window_class IN
      /\ Raised <=> OccursAt(rol.wm_class, value, 0)
      /\ _match_regex(rol, rol.wm_class, value) <=> OccursAt(rol.wm_class, value, 0)
      /\ (~OccursAt(rol.wm_class, value, 0)
            /\ \E k \in 1..Len(value) : OccursAt(rol.wm_class, value, k))
           => Launching

C31_Witness ==
    /\ Raised
    /\ rol.ignore_case
    /\ rol.wm_class = <<"a", "b">>
    /\ rol.tree.wins[1].window_class = <<"A", "b", "a">>
    /\ Cmds(log) # <<>>

----------------------------------------------------------------------------
(* Properties of the engine on a desktop that changes under it *)

\* run() acts in this step
RunStep == pc = "ready" /\ pc' \in {"listening", "done"}

\* C32: run() decides on the tree as it is when run() is called: every command
\* it sends to a window goes to a window that is on the desktop at that time,
\* so that a window closed since the engine was constructed is not acted on
C32_NoStaleHandle ==
    [][RunStep =>
         \A i \in (Len(log) + 1)..Len(log') :
            log'[i].win # 0 => HasWin(i3.wins, log'[i].win)]_vars

\* C36: the callback completes normally for every event, also when the new
\* window has been closed before the callback fetches the tree, and the
\* listening phase goes on until the time limit
C36_CallbackCompletes ==
    /\ pc # "failed"
    /\ (pc = "done" /\ HasOp(log, "main")) => clock >= timer

----------------------------------------------------------------------------
(* Properties of the captured workspace *)

\* C33: the current workspace is taken once, in the constructor, before any
\* command is sent, as the workspace that is focused then; nothing run() or
\* the callback does changes it, whatever workspace gets focused afterwards
C33_CapturedOnce ==
    [][/\ pc' = "ready" => (rol'.current_ws = i3.focusWs /\ Cmds(log') = <<>>)
       /\ pc \in {"ready", "listening"} => rol'.current_ws = rol.current_ws]_vars

C33_Witness ==
    /\ Launching
    /\ pc = "done"
    /\ At("workspace") # {}
    /\ At("move container to workspace") # {}
    /\ rol.current_ws = W1
    /\ i3.focusWs = W2
\* C34: a raising invocation sends exactly one command, a focus, a scratchpad
\* show or a workspace switch; when the chosen window is focused and the
\* scratchpad is not used, the workspace of the snapshot is compared with
\* itself and the switch to the current workspace is always sent
C34_OneCommandPerRaise ==
    Raised =>
      /\ Len(Cmds(log)) = 1
      /\ Cmds(log)[1].op \in {"focus", "scratchpad show", "workspace"}
      /\ (NoScratchRaised /\ Chosen.focused) =>
            /\ rol.current_ws = get_current_workspace(rol)
            /\ Cmds(log) = <<Req("workspace", 0, rol.current_ws)>>

C34_Witness ==
    /\ NoScratchRaised
    /\ Len(Matches) >= 2
    /\ Chosen.focused
    /\ Cmds(log) = <<Req("workspace", 0, rol.current_ws)>>
----------------------------------------------------------------------------
(* Properties of a failed construction *)

\* C35: a constructor that raises a configuration error has sent nothing to
\* the window manager: no tree query, no subscription, no command, and the
\* desktop is as it was; there is no engine, so nothing happens afterwards
C35_ErrorTouchesNothing ==
    [][/\ pc' = "error" =>
            /\ i3' = i3
            /\ log' = <<>>
            /\ handler' = <<>>
            /\ rol'.tree = NoTree
            /\ ~launched'
       /\ pc # "error"]_vars

C35_Witness ==
    /\ Raises(Ambiguous)
    /\ Len(i3.wins) >= 2
    /\ log = <<>>
    /\ ~ENABLED Run
----------------------------------------------------------------------------
(* Properties that follow from the checks of the constructor *)

ScratchOps == {"floating enable", "move scratchpad", "scratchpad show"}

\* C37: an engine that was constructed never has both the scratchpad and a
\* target workspace, and no window gets both a scratchpad command and a move
\* to a workspace from it, whatever windows appear
C37_ScratchOrMove ==
    Constructed =>
      /\ ~(rol.scratch /\ ~Empty(rol.target_workspace))
      /\ \A i, j \in 1..Len(log) :
            ~(/\ log[i].op \in ScratchOps
              /\ log[j].op = "move container to workspace"
              /\ log[i].win = log[j].win)

C37_Witness ==
    /\ Launching
    /\ rol.scratch
    /\ \E i \in At("move scratchpad") :
          \E k \in 1..Len(delivered) :
             delivered[k].matched /\ delivered[k].win = log[i].win
    /\ At("move container to workspace") = {}
----------------------------------------------------------------------------
(* Properties of a workspace scope without a target workspace *)

\* C38: a workspace scope given without a target workspace is the target
\* workspace as well: a launch goes to that workspace when it is not the
\* current one, listens for new windows and moves a matching new window there
\* when it appears elsewhere, and the window chosen among several matches is
\* on that workspace
C38_ScopeIsTarget ==
    /\ \A a \in ScopeArgs : NewRol(a).target_workspace = a.workspace
    /\ (Constructed /\ ~Empty(rol.workspace)) =>
         /\ rol.target_workspace = rol.workspace
         /\ Launching =>
               /\ (At("workspace") # {}) <=> (rol.workspace # rol.current_ws)
               /\ \A i \in At("workspace") : log[i] = Req("workspace", 0, rol.workspace)
               /\ At("subscribe") # {}
               /\ At("main") # {}
               /\ \A k \in 1..Len(delivered) :
                     delivered[k].matched =>
                       ((delivered[k].ws # rol.workspace)
                          <=> (\E i \in 1..Len(delivered[k].reqs) :
                                 delivered[k].reqs[i] =
                                   Req("move container to workspace",
                                       delivered[k].win, rol.workspace)))
         /\ (Raised /\ handler[2] # "_handle_running_cycle") =>
               Chosen.ws = rol.workspace

C38_Witness ==
    /\ Launching
    /\ rol.workspace = W2
    /\ rol.current_ws = W1
    /\ log[2] = Req("workspace", 0, W2)
    /\ \E k \in 1..Len(delivered) :
          /\ delivered[k].matched
          /\ delivered[k].ws = W1
          /\ Req("move container to workspace", delivered[k].win, W2) \in Range(log)

====
